---- MODULE Spec2Model ----
(***************************************************************************)
(* pcireg: command-line read/write of the registers of a memory-mapped     *)
(* device (src/main.cpp, the v1.4 program that starts at line 138).        *)
(*                                                                         *)
(* Machine integers are wider than the model checker's integers, so a      *)
(* uint32_t or uint64_t value is modelled as the set of the positions of   *)
(* its one-bits: 0x10 is {4}, 0xFFFFFFFF is 0..31.  Bitwise and, or and    *)
(* not are intersection, union and complement; a shift moves positions.    *)
(***************************************************************************)
EXTENDS Integers, Sequences, FiniteSets, TLC

VARIABLES
    \* what the program is given
    argv,        \* the command line after the program name, a sequence of strings
    env,         \* the environment variables pcireg_device, _bdf, _region, _symbols
    arch,        \* the architecture the program was built for
    resources,   \* the memory regions of the PCI device, as PciDevice lists them
    fileContent, \* the symbol file: whether it can be opened, and its lines
    \* the globals of main.cpp
    pciRegion, wide, isAxiWrite, axiAddr, axiData, device, symbolFile, bdf, symbol,
    output_mode,
    \* what the program does
    pc,          \* "start", "main", "execute", "exit"; "codec" in SpecCodec
    PCI,         \* the call made on the PciDevice, and the region selected
    fieldSpec,   \* the local of execute()
    shift,       \* the build's treatment of an over-wide shift, where one happened
    mem,         \* device memory: word offset from the base pointer -> word, for the words stored so far
    log,         \* the loads and stores of the last codec operation, in program order
    error,       \* the kind of failure, "none" without one
    stderr,      \* the parts of the message printed to standard error
    stdout,      \* what is printed to standard output
    exitCode,
    \* SpecCodec
    call,        \* the last codec call (its arguments and its result)
    prev         \* the codec call before it

inputs  == <<argv, env, arch, resources, fileContent>>
globals == <<pciRegion, wide, isAxiWrite, axiAddr, axiData, device, symbolFile, bdf,
             symbol, output_mode>>
effects == <<PCI, fieldSpec, shift, mem, log, error, stderr, stdout, exitCode>>
codec   == <<call, prev>>
vars    == <<inputs, globals, pc, effects, codec>>

-----------------------------------------------------------------------------
(* Bounds of the model *)

\* number of sample data words drawn from SampleList
NumSamples == 4
\* number of lines of a symbol file
MaxLines == 2
\* number of memory regions of a PCI device
MaxRegions == 2

-----------------------------------------------------------------------------
(* Machine integers as bit sets *)

\* width of a register: uint32_t
WordBits == 32
\* width of uint64_t
WideBits == 64

Bits32 == 0 .. (WordBits - 1)
Bits64 == 0 .. (WideBits - 1)

\* the bit set of a natural number below 2^16
FromNat(n) == {b \in 0 .. 15 : (n \div (2 ^ b)) % 2 = 1}

Bit(x, b) == IF b \in x THEN 2 ^ b ELSE 0

\* the natural number of an 8-bit value
ToNat(x) == Bit(x, 0) + Bit(x, 1) + Bit(x, 2) + Bit(x, 3)
          + Bit(x, 4) + Bit(x, 5) + Bit(x, 6) + Bit(x, 7)

\* a hexadecimal literal, most significant digit first, each digit 0..15
RECURSIVE FromHex(_)
FromHex(ds) ==
    IF ds = <<>> THEN {}
    ELSE LET n == Len(ds)
         IN  {b + 4 * (n - 1) : b \in FromNat(ds[1])} \cup FromHex(Tail(ds))

ShiftLeft(x, n)  == {b + n : b \in x}
ShiftRight(x, n) == {b - n : b \in {c \in x : c >= n}}
Trunc32(x) == x \cap Bits32
Trunc64(x) == x \cap Bits64
Not32(x)   == Bits32 \ x

\* the carry into bit i of a + b: generated at a lower bit where both have
\* a one, and propagated by every bit between, where at least one has
CarryInto(a, b, i) ==
    \E j \in a \cap b : j < i /\ \A k \in (j + 1) .. (i - 1) : k \in a \cup b

\* a + b without truncation, for operands below 2^68
Plus(a, b) ==
    UNION {{i \in 0 .. 68 : ((i \in x) # (i \in y)) # CarryInto(x, y, i)} :
              x \in {a}, y \in {b}}

\* a < b as unsigned numbers
Less(a, b) == \E i \in b \ a : \A j \in (a \cup b) : j > i => ((j \in a) <=> (j \in b))

\* the sample data words, the most telling first
SampleList ==
    << FromHex(<<0,1,2,3,4,5,6,7,8,9,10,11,12,13,14,15>>),
       Bits64,
       {},
       FromHex(<<10,10,10,10,10,10,10,10,5,5,5,5,5,5,5,5>>),
       FromHex(<<5,5,5,5,5,5,5,5,10,10,10,10,10,10,10,10>>),
       FromHex(<<15,15,15,15,0,0,0,0,0,0,0,0,15,15,15,15>>),
       FromHex(<<8,0,0,0,0,0,0,1,8,0,0,0,0,0,0,1>>),
       FromHex(<<1,2,3,4,5,6,7,8,8,7,6,5,4,3,2,1>>) >>

Samples64 == {SampleList[i] : i \in 1 .. (IF NumSamples < Len(SampleList)
                                          THEN NumSamples ELSE Len(SampleList))}
Samples32 == {Trunc32(s) : s \in Samples64}

-----------------------------------------------------------------------------
(* Device memory: what a uint32_t* dereference does *)

\* addr + 1 on a uint32_t*: the offset plus 4, not truncated to 32 bits
NextWord(o) ==
    LET i == CHOOSE k \in 2 .. 40 : k \notin o /\ \A j \in 2 .. (k - 1) : j \in o
    IN  (o \ (2 .. (i - 1))) \cup {i}

\* The content of the word at offset o before anything was stored to it:
\* a pattern that differs from word to word.
InitWord(o) == (ShiftLeft(o \cap (0 .. 15), 16) \cup (o \cap (0 .. 15))) \cap Bits32

\* *addr as an rvalue.  The memory is kept by word offset: the accesses of
\* one behaviour are to one offset and the offset 4 above it, which share no
\* byte.
LoadWord(m, o) == IF o \in DOMAIN m THEN m[o] ELSE InitWord(o)

\* *addr = w
StoreWord(m, o, w) == [x \in (DOMAIN m) \cup {o} |-> IF x = o THEN w ELSE m[x]]

Load(o, w)  == [op |-> "load",  off |-> o, val |-> w]
Store(o, w) == [op |-> "store", off |-> o, val |-> w]

-----------------------------------------------------------------------------
(* Register codec *)

\* What a shift by a count >= the width of its operand does (undefined in
\* C++): the count is taken modulo 32 (x86-64, aarch64 shift instructions)
\* or the operand is shifted out entirely (32-bit ARM, x86 BZHI).
ShiftModes == {"modulo", "zero"}

\* uint32_t << n
Shl32(x, n, mode) ==
    IF n < WordBits THEN Trunc32(ShiftLeft(x, n))
    ELSE IF mode = "modulo" THEN Trunc32(ShiftLeft(x, n % WordBits))
    ELSE {}

\* uint32_t >> n
Shr32(x, n, mode) ==
    IF n < WordBits THEN ShiftRight(x, n)
    ELSE IF mode = "modulo" THEN ShiftRight(x, n % WordBits)
    ELSE {}

\* width = (fspec >> 24) & 0xFF
FieldWidth(fspec) == ToNat(ShiftRight(fspec, 24) \cap (0 .. 7))

\* pos = (fspec >> 16) & 0xFF
FieldPos(fspec) == ToNat(ShiftRight(fspec, 16) \cap (0 .. 7))

\* uint32_t mask = (1 << width) - 1, the shift done on a 32-bit int.
\* width 31 is INT_MIN - 1, which wraps to 0x7FFFFFFF; width >= 32 is an
\* over-wide shift: 1 << (width % 32), or 0 and then -1.
FieldMask(width, mode) ==
    IF width < WordBits THEN 0 .. (width - 1)
    ELSE IF mode = "modulo" THEN 0 .. ((width % WordBits) - 1)
    ELSE Bits32

\* writeField without the clearing of the field's old bits kept apart
FieldInsertClobber(currentValue, data, fspec, mode) ==
    LET width == FieldWidth(fspec)
        pos   == FieldPos(fspec)
        mask  == FieldMask(width, mode)
    IN  Shl32(Trunc32(data \cap mask), pos, mode)

\* writeField, the value stored: the register with the field replaced
FieldInsert(currentValue, data, fspec, mode) ==
    LET width      == FieldWidth(fspec)
        pos        == FieldPos(fspec)
        mask       == FieldMask(width, mode)
        maskedData == Trunc32(data \cap mask)
        newValue   == currentValue \cap Not32(Shl32(mask, pos, mode))
    IN  newValue \cup Shl32(maskedData, pos, mode)

\* readField, the value returned
FieldExtract(currentValue, fspec, mode) ==
    LET width == FieldWidth(fspec)
        pos   == FieldPos(fspec)
        mask  == FieldMask(width, mode)
    IN  Shr32(currentValue, pos, mode) \cap mask

\* a codec operation gives the memory after it, its accesses in order, and
\* the value it returns ({} for the writes)
Effect(m, l, r) == [mem |-> m, log |-> l, ret |-> r]

\* writeRegister that stores the low word first
writeRegisterLowFirst(m, axi_addr, data, w) ==
    LET hi == Trunc32(ShiftRight(data, 32))
        lo == Trunc32(data)
    IN  IF w
        THEN Effect(StoreWord(StoreWord(m, NextWord(axi_addr), lo), axi_addr, hi),
                    <<Store(NextWord(axi_addr), lo), Store(axi_addr, hi)>>, {})
        ELSE Effect(StoreWord(m, axi_addr, lo), <<Store(axi_addr, lo)>>, {})

writeRegister(m, axi_addr, data, w) ==
    LET hi == Trunc32(ShiftRight(data, 32))
        lo == Trunc32(data \cap Bits32)
    IN  IF w
        THEN Effect(StoreWord(StoreWord(m, axi_addr, hi), NextWord(axi_addr), lo),
                    <<Store(axi_addr, hi), Store(NextWord(axi_addr), lo)>>, {})
        ELSE Effect(StoreWord(m, axi_addr, lo), <<Store(axi_addr, lo)>>, {})

\* readRegister that takes the word at the lower address as the low half
readRegisterSwapped(m, axi_addr, w) ==
    LET a0 == LoadWord(m, axi_addr)
        a1 == LoadWord(m, NextWord(axi_addr))
    IN  IF w
        THEN Effect(m, <<Load(axi_addr, a0), Load(NextWord(axi_addr), a1)>>,
                    ShiftLeft(a1, 32) \cup a0)
        ELSE Effect(m, <<Load(axi_addr, a0)>>, a0)

readRegister(m, axi_addr, w) ==
    LET hi == LoadWord(m, axi_addr)
        lo == LoadWord(m, NextWord(axi_addr))
    IN  IF w
        THEN Effect(m, <<Load(axi_addr, hi), Load(NextWord(axi_addr), lo)>>,
                    ShiftLeft(hi, 32) \cup lo)
        ELSE Effect(m, <<Load(axi_addr, hi)>>, hi)

writeField(m, axi_addr, data, fspec, mode) ==
    LET currentValue == LoadWord(m, axi_addr)
        newValue     == FieldInsert(currentValue, data, fspec, mode)
    IN  Effect(StoreWord(m, axi_addr, newValue),
               <<Load(axi_addr, currentValue), Store(axi_addr, newValue)>>, {})

readField(m, axi_addr, fspec, mode) ==
    LET currentValue == LoadWord(m, axi_addr)
    IN  Effect(m, <<Load(axi_addr, currentValue)>>,
               FieldExtract(currentValue, fspec, mode))

-----------------------------------------------------------------------------
(* Text: a C string is the sequence of its characters *)

HexDigits == <<"0", "1", "2", "3", "4", "5", "6", "7", "8", "9",
               "a", "b", "c", "d", "e", "f">>
UpperDigits == <<"0", "1", "2", "3", "4", "5", "6", "7", "8", "9",
                 "A", "B", "C", "D", "E", "F">>

\* the value of a digit character, 99 for any other character
DigitVal(c) ==
    IF \E i \in 1 .. 16 : HexDigits[i] = c
    THEN (CHOOSE i \in 1 .. 16 : HexDigits[i] = c) - 1
    ELSE IF \E i \in 1 .. 16 : UpperDigits[i] = c
    THEN (CHOOSE i \in 1 .. 16 : UpperDigits[i] = c) - 1
    ELSE 99

IsSpace(c) == c \in {" ", "\t", "\n", "\r"}

\* the character at index i, "" (the terminating NUL) past the end
CharAt(s, i) == IF i >= 1 /\ i <= Len(s) THEN s[i] ELSE ""

\* acc * base + d for the bases strtoull chooses among; a digit below a base
\* that is a power of two fills the bits the shift left empty
MulAdd(acc, base, d) ==
    IF base = 16 THEN ShiftLeft(acc, 4) \cup FromNat(d)
    ELSE IF base = 8 THEN ShiftLeft(acc, 3) \cup FromNat(d)
    ELSE Plus(Plus(ShiftLeft(acc, 3), ShiftLeft(acc, 1)), FromNat(d))

RECURSIVE Digits(_, _, _, _, _)
\* the digits of s from index i on in the given base, accumulated into acc;
\* ovf records that the value left 64 bits
Digits(s, i, base, acc, ovf) ==
    LET d == DigitVal(CharAt(s, i))
    IN  IF d >= base THEN [val |-> acc, ovf |-> ovf]
        ELSE CHOOSE res \in
                 {Digits(s, i + 1, base, Trunc64(r), ovf \/ (r \ Bits64 # {})) :
                     r \in {MulAdd(acc, base, d)}} : TRUE

RECURSIVE SkipSpace(_, _)
SkipSpace(s, i) == IF IsSpace(CharAt(s, i)) THEN SkipSpace(s, i + 1) ELSE i

\* strtoull(s, 0, 0) and, unsigned long being 64 bits wide, strtoul(s, 0, 0):
\* white space, a sign, the base from the prefix (0x hexadecimal, 0 octal,
\* else decimal), the digits up to the first character that is none;
\* ULLONG_MAX when the value leaves 64 bits, the negation when signed minus.
StrToULL(s) ==
    LET i    == SkipSpace(s, 1)
        neg  == CharAt(s, i) = "-"
        j    == IF CharAt(s, i) \in {"-", "+"} THEN i + 1 ELSE i
        hex  == /\ CharAt(s, j) = "0"
                /\ CharAt(s, j + 1) \in {"x", "X"}
                /\ DigitVal(CharAt(s, j + 2)) < 16
        base == IF hex THEN 16 ELSE IF CharAt(s, j) = "0" THEN 8 ELSE 10
        r    == Digits(s, IF hex THEN j + 2 ELSE j, base, {}, FALSE)
    IN  IF r.ovf THEN Bits64
        ELSE IF neg THEN Trunc64(Plus(Bits64 \ r.val, {0}))
        ELSE r.val

RECURSIVE CopyToken(_, _, _)
\* the loop of stripUnderscores: underscores dropped, the copy ended by
\* NUL, newline, carriage return, space or tab, or by its 91st character
CopyToken(str, i, out) ==
    LET c == CharAt(str, i)
    IN  IF c = "_" THEN CopyToken(str, i + 1, out)
        ELSE IF c \in {"", "\n", "\r", " ", "\t"} THEN out
        ELSE IF Len(out) + 1 > 90 THEN Append(out, c)
        ELSE CopyToken(str, i + 1, Append(out, c))

RECURSIVE SkipBlank(_, _)
SkipBlank(s, i) == IF CharAt(s, i) \in {" ", "\t"} THEN SkipBlank(s, i + 1) ELSE i

stripUnderscores(str) == CopyToken(str, SkipBlank(str, 1), <<>>)

strToBin32(str) == Trunc32(StrToULL(stripUnderscores(str)))

strToBin64(str) == StrToULL(stripUnderscores(str))

RECURSIVE Nat31(_)
Nat31(x) == IF x = {} THEN 0
            ELSE LET b == CHOOSE c \in x : TRUE IN (2 ^ b) + Nat31(x \ {b})

\* the int an unsigned long converts to: its low 32 bits, two's complement
ToInt(x) == IF 31 \in x THEN 0 - (Nat31(Bits32 \ x) + 1) ELSE Nat31(Trunc32(x))

-----------------------------------------------------------------------------
(* Symbol resolver *)

\* a file that opens, with its lines, and one that does not open
File(lines) == [exists |-> TRUE, lines |-> lines]
Missing     == [exists |-> FALSE, lines |-> <<>>]

RECURSIVE Split(_, _, _, _)
\* CTokenizer::parse for lines without quotes or commas: the maximal runs of
\* characters that are not white space
Split(s, i, cur, acc) ==
    IF i > Len(s) THEN (IF cur = <<>> THEN acc ELSE Append(acc, cur))
    ELSE CHOOSE r \in
             {Split(s, i + 1, c, a) :
                 c \in {IF IsSpace(s[i]) THEN <<>> ELSE Append(cur, s[i])},
                 a \in {IF IsSpace(s[i]) /\ cur # <<>> THEN Append(acc, cur) ELSE acc}} :
             TRUE

Tokenize(s) == Split(s, 1, <<>>, <<>>)

T_define == <<"#", "d", "e", "f", "i", "n", "e">>

\* the tokens of a line that getSymbolValue looks at, <<>> for a line it
\* ignores: a blank line, a // comment, a line that is not three tokens of
\* which the first is #define
Candidate(line) ==
    LET in == SkipBlank(line, 1)
    IN  IF CharAt(line, in) \in {"\n", "\r", ""} THEN <<>>
        ELSE IF CharAt(line, in) = "/" /\ CharAt(line, in + 1) = "/" THEN <<>>
        ELSE CHOOSE r \in
                 {IF Len(token) # 3 THEN <<>>
                  ELSE IF token[1] # T_define THEN <<>>
                  ELSE token :
                      token \in {Tokenize(SubSeq(line, in, Len(line)))}} : TRUE

Found(v)       == [status |-> "found", value |-> v]
M_cantOpen == <<"p", "c", "i", "r", "e", "g", " ", ":", " ", "c", "a", "n", "t", " ", "o", "p", "e", "n", " ", "s", "y", "m", "b", "o", "l", " ", "f", "i", "l", "e">>
M_cantFind == <<"p", "c", "i", "r", "e", "g", " ", ":", " ", "c", "a", "n", "t", " ", "f", "i", "n", "d", " ">>
M_in       == <<" ", "i", "n", " ">>

\* the messages, as the strings that are concatenated into them
CantOpen(f)    == [status |-> "FileNotFound", what |-> <<M_cantOpen, f>>]
CantFind(s, f) == [status |-> "SymbolNotFound", what |-> <<M_cantFind, s, M_in, f>>]

RECURSIVE ScanLast(_, _, _, _)
\* a scan that goes on after a match and keeps the last one
ScanLast(lines, i, sym, best) ==
    IF i > Len(lines) THEN best
    ELSE CHOOSE r \in
             {IF token # <<>> /\ token[2] = sym
              THEN ScanLast(lines, i + 1, sym, Append(<<>>, StrToULL(token[3])))
              ELSE ScanLast(lines, i + 1, sym, best) :
                  token \in {Candidate(lines[i])}} : TRUE

getSymbolValueLast(sym, file, content) ==
    IF ~content.exists THEN CantOpen(file)
    ELSE LET best == ScanLast(content.lines, 1, sym, <<>>)
         IN  IF best = <<>> THEN CantFind(sym, file) ELSE Found(best[1])

RECURSIVE Scan(_, _, _, _)
\* the loop of getSymbolValue over the lines fgets delivers
Scan(lines, i, sym, file) ==
    IF i > Len(lines) THEN CantFind(sym, file)
    ELSE CHOOSE r \in
             {IF token # <<>> /\ token[2] = sym
              THEN Found(StrToULL(token[3]))
              ELSE Scan(lines, i + 1, sym, file) :
                  token \in {Candidate(lines[i])}} : TRUE

\* getSymbolValue; content is what is in the file named file: whether fopen
\* succeeds, and the lines
getSymbolValue(sym, file, content) ==
    IF ~content.exists THEN CantOpen(file)
    ELSE Scan(content.lines, 1, sym, file)

-----------------------------------------------------------------------------
(* The command line: parseCommandLine() and main() *)

OM_NONE == 0
OM_DEC  == 1
OM_HEX  == 2
OM_BOTH == 3

T_r      == <<"-", "r">>
T_d      == <<"-", "d">>
T_bdf    == <<"-", "b", "d", "f">>
T_dec    == <<"-", "d", "e", "c">>
T_hex    == <<"-", "h", "e", "x">>
T_wide   == <<"-", "w", "i", "d", "e">>
T_sym    == <<"-", "s", "y", "m">>
T_direct == <<"d", "i", "r", "e", "c", "t">>

\* DEFAULT_DEVICE
DefaultDevice(a) == IF a = "aarch64" THEN T_direct ELSE <<"1", "0", "e", "e", ":", "9", "0", "3", "f">>

DefaultSymbolFile == <<"f", "p", "g", "a", "_", "r", "e", "g", ".", "h">>

\* the globals as their initialisers leave them, with the locals of
\* parseCommandLine: index counts the positional arguments, help records
\* that showHelp() was called
Globals0 ==
    [pciRegion |-> -1, wide |-> FALSE, isAxiWrite |-> FALSE, axiAddr |-> Bits32,
     axiData |-> {}, device |-> <<>>, symbolFile |-> <<>>, bdf |-> <<>>,
     symbol |-> <<>>, output_mode |-> OM_NONE, index |-> 0, help |-> FALSE]

\* output_mode |= flag, for the flags 1 and 2
OrMode(m, flag) == IF (m \div flag) % 2 = 1 THEN m ELSE m + flag

IsDigit(c) == c \in {"0", "1", "2", "3", "4", "5", "6", "7", "8", "9"}

\* one turn of the loop of parseCommandLine on the token args[i]: the
\* globals after it and the index of the next token
ParseToken(args, i, g) ==
    LET token   == args[i]
        operand == i + 1 <= Len(args)
        Usage   == [g |-> [g EXCEPT !.help = TRUE], next |-> i + 1]
        Takes(h) == [g |-> h, next |-> i + 2]
        Flag(h)  == [g |-> h, next |-> i + 1]
    IN  IF token = T_r
        THEN IF operand
             THEN Takes([g EXCEPT !.pciRegion = ToInt(StrToULL(args[i + 1]))])
             ELSE Usage
        ELSE IF token = T_d
        THEN IF operand THEN Takes([g EXCEPT !.device = args[i + 1]]) ELSE Usage
        ELSE IF token = T_bdf
        THEN IF operand THEN Takes([g EXCEPT !.bdf = args[i + 1]]) ELSE Usage
        ELSE IF token = T_dec
        THEN Flag([g EXCEPT !.output_mode = OrMode(g.output_mode, OM_DEC)])
        ELSE IF token = T_hex
        THEN Flag([g EXCEPT !.output_mode = OrMode(g.output_mode, OM_HEX)])
        ELSE IF token = T_wide
        THEN Flag([g EXCEPT !.wide = TRUE])
        ELSE IF token = T_sym
        THEN IF operand THEN Takes([g EXCEPT !.symbolFile = args[i + 1]]) ELSE Usage
        ELSE IF g.index + 1 = 1
        THEN IF IsDigit(CharAt(token, 1))
             THEN Flag([g EXCEPT !.index = 1, !.axiAddr = strToBin32(token)])
             ELSE Flag([g EXCEPT !.index = 1, !.symbol = token])
        ELSE Flag([g EXCEPT !.index = g.index + 1, !.axiData = strToBin64(token),
                            !.isAxiWrite = TRUE])

RECURSIVE ParseArgs(_, _, _)
ParseArgs(args, i, g) ==
    IF i > Len(args) \/ g.help THEN g
    ELSE CHOOSE r \in {ParseArgs(args, st.next, st.g) :
                          st \in {ParseToken(args, i, g)}} : TRUE

\* the test that ends parseCommandLine: no address was given
NoAddress(g) == g.axiAddr = Bits32 /\ g.symbol = <<>>

\* the globals parseCommandLine leaves; help when it called showHelp()
Parsed(args) ==
    LET g == ParseArgs(args, 1, Globals0)
    IN  IF g.help THEN g
        ELSE IF NoAddress(g) THEN [g EXCEPT !.help = TRUE]
        ELSE g

parseCommandLine ==
    /\ pc = "start"
    /\ \E g \in {Parsed(argv)} :
           /\ pciRegion' = g.pciRegion
           /\ wide' = g.wide
           /\ isAxiWrite' = g.isAxiWrite
           /\ axiAddr' = g.axiAddr
           /\ axiData' = g.axiData
           /\ device' = g.device
           /\ symbolFile' = g.symbolFile
           /\ bdf' = g.bdf
           /\ symbol' = g.symbol
           /\ output_mode' = g.output_mode
           /\ IF g.help
              THEN /\ pc' = "exit"
                   /\ error' = "UsageError"
                   /\ stdout' = <<"usage">>
                   /\ exitCode' = 1
              ELSE /\ pc' = "main"
                   /\ UNCHANGED <<error, stdout, exitCode>>
    /\ UNCHANGED <<inputs, PCI, fieldSpec, shift, mem, log, stderr, codec>>

\* what getenv returns for a variable that is not set
Unset == <<"unset">>

NoEnv == [pcireg_device |-> Unset, pcireg_bdf |-> Unset,
          pcireg_region |-> Unset, pcireg_symbols |-> Unset]

\* x, or the environment variable when x is empty and the variable is set
OrEnv(x, p) == IF x = <<>> /\ p # Unset THEN p ELSE x

\* x, or the default when x is empty
OrDefault(x, d) == IF x = <<>> THEN d ELSE x

\* the region index main leaves for execute(): -1 stands for "not given"
RegionOrDefault(r, p) ==
    LET fromEnv == IF r = -1 /\ p # Unset THEN ToInt(StrToULL(p)) ELSE r
    IN  IF fromEnv = -1 THEN 0 ELSE fromEnv

\* main() between parseCommandLine() and execute()
Main ==
    /\ pc = "main"
    /\ device' = OrDefault(OrEnv(device, env.pcireg_device), DefaultDevice(arch))
    /\ bdf' = OrEnv(bdf, env.pcireg_bdf)
    /\ pciRegion' = RegionOrDefault(pciRegion, env.pcireg_region)
    /\ symbolFile' = OrDefault(OrEnv(symbolFile, env.pcireg_symbols), DefaultSymbolFile)
    /\ pc' = "execute"
    /\ UNCHANGED <<inputs, wide, isAxiWrite, axiAddr, axiData, symbol, output_mode,
                   effects, codec>>

-----------------------------------------------------------------------------
(* execute() *)

\* the size of the window of direct mode
DirectWindow == FromHex(<<1, 0, 0, 0>>)

\* the field specifier that stands for "no field"
NoFieldSentinel == FromHex(<<2, 0, 0, 0, 0, 0, 0, 0>>)

\* the PciDevice before it is opened
Closed == [open |-> [call |-> "none"], region |-> -1]

\* PCI.openDirect(axiAddr, 0x1000), PCI.open(device, bdf): the call, and the
\* regions resourceList() then gives
OpenCall ==
    IF device = T_direct
    THEN [call |-> "openDirect", addr |-> axiAddr, size |-> DirectWindow]
    ELSE [call |-> "open", device |-> device, bdf |-> bdf]

ResourceList ==
    IF device = T_direct THEN <<[size |-> DirectWindow]>> ELSE resources

\* if (device == "direct") axiAddr &= 0xFFF
WindowOffset(a) == IF device = T_direct THEN a \cap (0 .. 11) ELSE a

\* a region test that lets the index one past the end through
RegionLegalOffByOne(r, n) == r >= 0 /\ r <= n

\* the negation of (pciRegion < 0 || pciRegion >= resource.size())
RegionLegal(r, n) == ~(r < 0 \/ r >= n)

\* an address test with > for >=
AddressLegalInclusive(a, size) == ~Less(size, a)

\* the negation of (axiAddr >= resource[pciRegion].size)
AddressLegal(a, size) == ~(~Less(a, size))

\* a decoding that takes the address from the high half
SymbolAddressHigh(v) == Trunc32(ShiftRight(v, 32))

\* axiAddr = (uint32_t)(symbolValue & 0xFFFFFFFF)
SymbolAddress(v) == Trunc32(v \cap Bits32)

\* a decoding without the sentinel
SymbolFieldSpecRaw(v) == Trunc32(ShiftRight(v, 32))

\* fieldSpec = (symbolValue >> 32); 0x20000000 is the same as 0
SymbolFieldSpec(v) ==
    LET f == Trunc32(ShiftRight(v, 32))
    IN  IF f = NoFieldSentinel THEN {} ELSE f

\* execute() up to its dispatch: how far it gets, and the address and field
\* specifier it ends with
Resolution ==
    LET resource == ResourceList
        a0       == WindowOffset(axiAddr)
        lookup   == getSymbolValue(symbol, symbolFile, fileContent)
        a1       == IF symbol # <<>> THEN SymbolAddress(lookup.value) ELSE a0
        f1       == IF symbol # <<>> THEN SymbolFieldSpec(lookup.value) ELSE {}
    IN  IF ~RegionLegal(pciRegion, Len(resource))
        THEN [stage |-> "IllegalRegion", axiAddr |-> a0, fieldSpec |-> {},
              what |-> <<<<"i", "l", "l", "e", "g", "a", "l", " ", "P", "C", "I", " ", "r", "e", "g", "i", "o", "n">>>>]
        ELSE IF symbol # <<>> /\ lookup.status # "found"
        THEN [stage |-> lookup.status, axiAddr |-> a0, fieldSpec |-> {},
              what |-> lookup.what]
        ELSE IF ~AddressLegal(a1, resource[pciRegion + 1].size)
        THEN [stage |-> "IllegalAddress", axiAddr |-> a1, fieldSpec |-> f1,
              what |-> <<<<"i", "l", "l", "e", "g", "a", "l", " ", "A", "X", "I", " ", "a", "d", "d", "r", "e", "s", "s">>>>]
        ELSE [stage |-> "dispatch", axiAddr |-> a1, fieldSpec |-> f1,
              size |-> resource[pciRegion + 1].size]

\* the PciDevice after execute() opened it and, the index being legal, took
\* the base pointer of a region
Opened(r) ==
    [open |-> OpenCall,
     region |-> IF r.stage = "IllegalRegion" THEN -1 ELSE pciRegion]

\* execute() throws; main() prints e.what() and exits with 1
Throw(kind) ==
    /\ \E r \in {Resolution} :
           /\ r.stage = kind
           /\ axiAddr' = r.axiAddr
           /\ fieldSpec' = r.fieldSpec
           /\ PCI' = Opened(r)
           /\ stderr' = r.what
    /\ error' = kind
    /\ exitCode' = 1
    /\ pc' = "exit"
    /\ UNCHANGED <<inputs, pciRegion, wide, isAxiWrite, axiData, device, symbolFile,
                   bdf, symbol, output_mode, shift, mem, log, stdout, codec>>

ExecuteIllegalRegion ==
    /\ pc = "execute"
    /\ Throw("IllegalRegion")

ExecuteFileNotFound ==
    /\ pc = "execute"
    /\ Throw("FileNotFound")

ExecuteSymbolNotFound ==
    /\ pc = "execute"
    /\ Throw("SymbolNotFound")

ExecuteIllegalAddress ==
    /\ pc = "execute"
    /\ Throw("IllegalAddress")


\* the build's treatment of over-wide shifts shows only where one happens
Overwide(f) == FieldWidth(f) >= WordBits \/ FieldPos(f) >= WordBits
ShiftChoices(f) == IF Overwide(f) THEN ShiftModes ELSE {"none"}

\* a dispatch that lets -wide choose the whole-register operations
DispatchWideFirst(r, mode) ==
    IF isAxiWrite
    THEN IF r.fieldSpec = {} \/ wide
         THEN [op |-> "writeRegister", e |-> writeRegister(mem, r.axiAddr, axiData, wide)]
         ELSE [op |-> "writeField",
               e |-> writeField(mem, r.axiAddr, axiData, r.fieldSpec, mode)]
    ELSE IF r.fieldSpec = {} \/ wide
         THEN [op |-> "readRegister", e |-> readRegister(mem, r.axiAddr, wide)]
         ELSE [op |-> "readField", e |-> readField(mem, r.axiAddr, r.fieldSpec, mode)]

\* the codec call execute() dispatches to
Dispatch(r, mode) ==
    IF isAxiWrite
    THEN IF r.fieldSpec = {}
         THEN [op |-> "writeRegister", e |-> writeRegister(mem, r.axiAddr, axiData, wide)]
         ELSE [op |-> "writeField",
               e |-> writeField(mem, r.axiAddr, axiData, r.fieldSpec, mode)]
    ELSE IF r.fieldSpec = {}
         THEN [op |-> "readRegister", e |-> readRegister(mem, r.axiAddr, wide)]
         ELSE [op |-> "readField", e |-> readField(mem, r.axiAddr, r.fieldSpec, mode)]

\* the word at offset o lies within a region of the given size
Inside(o, size) == ~Less(size, NextWord(o))

RECURSIVE Replay(_, _, _)
\* the memory after the stores among the first k accesses of l
Replay(m, l, k) ==
    IF k = 0 THEN m
    ELSE LET before == Replay(m, l, k - 1)
         IN  IF l[k].op = "store" THEN StoreWord(before, l[k].off, l[k].val)
             ELSE before

\* execute() reaches its dispatch and the codec call completes
Complete(opname) ==
    /\ \E r \in {Resolution} :
           /\ r.stage = "dispatch"
           /\ \E mode \in ShiftChoices(r.fieldSpec) :
                \E d \in {Dispatch(r, mode)} :
                    /\ d.op = opname
                    /\ shift' = mode
                    /\ mem' = d.e.mem
                    /\ log' = d.e.log
                    /\ axiData' = IF isAxiWrite THEN axiData ELSE d.e.ret
                    /\ wide' = IF opname = "readField" THEN FALSE ELSE wide
                    /\ stdout' = IF isAxiWrite THEN <<>>
                                 ELSE <<[value |-> d.e.ret,
                                         digits |-> IF wide /\ opname # "readField"
                                                    THEN 16 ELSE 8,
                                         mode |-> output_mode]>>
           /\ axiAddr' = r.axiAddr
           /\ fieldSpec' = r.fieldSpec
           /\ PCI' = Opened(r)
    /\ error' = "none"
    /\ exitCode' = 0
    /\ pc' = "exit"
    /\ UNCHANGED <<inputs, pciRegion, isAxiWrite, device, symbolFile, bdf, symbol,
                   output_mode, stderr, codec>>

ExecuteWriteRegister ==
    /\ pc = "execute"
    /\ Complete("writeRegister")

ExecuteWriteField ==
    /\ pc = "execute"
    /\ Complete("writeField")

ExecuteReadRegister ==
    /\ pc = "execute"
    /\ Complete("readRegister")

ExecuteReadField ==
    /\ pc = "execute"
    /\ Complete("readField")


\* execute() reaches its dispatch and the codec call dereferences a pointer
\* to a word that is not within the mapped region: the access may go to
\* whatever is mapped there (the Complete actions) or end the process
ExecuteFault ==
    /\ pc = "execute"
    /\ \E r \in {Resolution} :
           /\ r.stage = "dispatch"
           /\ \E mode \in ShiftChoices(r.fieldSpec) :
                \E l \in {Dispatch(r, mode).e.log} :
                    /\ \E k \in 1 .. Len(l) : ~Inside(l[k].off, r.size)
                    /\ LET k == CHOOSE j \in 1 .. Len(l) :
                                   /\ ~Inside(l[j].off, r.size)
                                   /\ \A i \in 1 .. (j - 1) : Inside(l[i].off, r.size)
                       IN  /\ log' = SubSeq(l, 1, k)
                           /\ mem' = Replay(mem, l, k - 1)
                    /\ shift' = mode
           /\ axiAddr' = r.axiAddr
           /\ fieldSpec' = r.fieldSpec
           /\ PCI' = Opened(r)
    /\ error' = "SIGSEGV"
    /\ exitCode' = 139
    /\ pc' = "exit"
    /\ UNCHANGED <<inputs, pciRegion, wide, isAxiWrite, axiData, device, symbolFile,
                   bdf, symbol, output_mode, stderr, stdout, codec>>

-----------------------------------------------------------------------------
(* The invocations the model runs *)

Sp == <<" ">>
Nl == <<"\n">>
DefineLine(name, value) == T_define \o Sp \o name \o Sp \o value \o Nl

N_FOO == <<"F", "O", "O">>
N_BAR == <<"B", "A", "R">>
N_FLD == <<"F", "L", "D">>
N_TOP == <<"T", "O", "P">>
N_NOPE == <<"N", "O", "P", "E">>
N_WID == <<"W", "I", "D">>

\* the lines symbol files are made of
LinePool ==
    { DefineLine(N_FOO, <<"0", "x", "2", "0", "0", "0", "0", "0", "1", "0">>),
      DefineLine(N_BAR, <<"0", "x", "0", "0", "1", "0", "0", "0", "0", "0", "2", "0">>),
      DefineLine(N_FLD, <<"0", "x", "0", "8", "0", "4", "0", "0", "0", "0", "0", "0", "0", "0", "0", "0", "1", "0">>),
      DefineLine(N_FOO, <<"0", "x", "2", "0", "0", "0", "0", "0", "0", "0", "0", "0", "0", "0", "0", "f", "f", "c">>),
      DefineLine(N_TOP, <<"0", "x", "2", "0", "0", "0", "0", "0", "0", "1", "f", "f", "f", "f", "f", "f", "f", "f">>),
      DefineLine(<<"f", "o", "o">>, <<"0", "x", "0", "c", "1", "0", "0", "0", "0", "0", "0", "0", "0", "0", "0", "0", "1", "8">>),
      DefineLine(N_FLD, <<"0", "x", "3", "0">> \o Sp \o <<"0", "x", "4", "0">>),
      <<" ", " ", "/", "/", " ">> \o DefineLine(N_BAR, <<"0", "x", "5", "0">>),
      <<"#", "u", "n", "d", "e", "f">> \o Sp \o N_FLD \o Sp \o <<"0", "x", "6", "0">> \o Nl,
      <<" ", "\t">> \o Nl }

RECURSIVE SeqsUpTo(_, _)
\* the sequences over S of length at most n
SeqsUpTo(S, n) ==
    IF n = 0 THEN {<<>>}
    ELSE LET shorter == SeqsUpTo(S, n - 1)
         IN  shorter \cup {Append(q, x) : q \in shorter, x \in S}

SymbolFiles == {File(l) : l \in SeqsUpTo(LinePool, MaxLines)}

\* the symbol file of the resolver's example
ExampleFile ==
    File(<< DefineLine(N_FOO, <<"0", "x", "2", "0", "0", "0", "0", "0", "1", "0">>), DefineLine(N_BAR, <<"0", "x", "0", "0", "1", "0", "0", "0", "0", "0", "2", "0">>) >>)

\* a symbol file of fields: FLD, 8 bits wide at bit 4 of the register at
\* 0x10, and WID, 32 bits wide at bit 0 of it, a reserved bit set
FieldFile ==
    File(<< DefineLine(N_FLD, <<"0", "x", "0", "8", "0", "4", "0", "0", "0", "0", "0", "0", "0", "0", "0", "0", "1", "0">>),
            DefineLine(N_WID, <<"0", "x", "2", "0", "0", "0", "0", "0", "0", "1", "0", "0", "0", "0", "0", "0", "1", "0">>) >>)

RegionSizes == {DirectWindow, Bits32}

ResourceLists == SeqsUpTo([size : RegionSizes], MaxRegions)

Opt(flag, values) == {<<>>} \cup {<<flag, v>> : v \in values}

RegionArgs == Opt(T_r, {<<"-", "1">>, <<"0">>, <<"1">>, <<"7">>})
DeviceArgs == Opt(T_d, {T_direct})
WideArgs   == {<<>>, <<T_wide>>}
ModeArgs   == {<<>>, <<T_hex>>, <<T_dec, T_hex>>}
Addresses  == {<<"0", "x", "1", "0">>, <<"4", "_", "0", "9", "6">>, <<"0", "x", "F", "F", "E">>, <<"0", "x", "F", "F", "C">>, <<"0", "x", "F", "F", "F", "F", "F", "F", "F", "E">>, <<"0", "x", "F", "F", "F", "F", "F", "F", "F", "F">>}
Symbols    == {N_FOO, N_BAR, N_FLD, N_TOP, N_NOPE}
DataArgs   == {<<>>, <<<<"0", "x", "0", "1", "2", "3", "4", "5", "6", "7", "8", "9", "A", "B", "C", "D", "E", "F">>>>, <<<<"1", "_", "0", "0", "0">>>>}

Envs == {NoEnv, [NoEnv EXCEPT !.pcireg_region = <<"1">>],
         [NoEnv EXCEPT !.pcireg_device = T_direct]}

Run(a, e, b, l, f) ==
    [argv |-> a, env |-> e, arch |-> b, resources |-> l, fileContent |-> f]

\* the invocations that vary the device and the region
RegionRuns ==
    {Run(r \o d \o <<t>> \o x, e, b, l, ExampleFile) :
        r \in RegionArgs, d \in DeviceArgs, t \in {<<"0", "x", "1", "0">>, N_FOO},
        x \in {<<>>, <<<<"1", "_", "0", "0", "0">>>>}, e \in Envs, b \in {"x86_64", "aarch64"},
        l \in ResourceLists}

\* the invocations that vary the address, the data and the width of the access
AddressRuns ==
    {Run(d \o w \o <<t>> \o x, NoEnv, "x86_64", <<[size |-> z]>>, ExampleFile) :
        d \in DeviceArgs, w \in WideArgs, t \in Addresses \cup Symbols,
        x \in DataArgs, z \in RegionSizes}

\* the invocations that vary the symbol and the symbol file
SymbolRuns ==
    {Run(<<t>> \o x, NoEnv, "x86_64", <<[size |-> Bits32]>>, f) :
        t \in Symbols, x \in {<<>>, <<<<"0", "x", "0", "1", "2", "3", "4", "5", "6", "7", "8", "9", "A", "B", "C", "D", "E", "F">>>>},
        f \in SymbolFiles \cup {Missing}}

\* the invocations that access a field
FieldRuns ==
    {Run(d \o w \o <<t>> \o x, NoEnv, "x86_64", <<[size |-> DirectWindow]>>, FieldFile) :
        d \in DeviceArgs, w \in WideArgs, t \in {N_FLD, N_WID},
        x \in {<<>>, <<<<"0", "x", "0", "1", "2", "3", "4", "5", "6", "7", "8", "9", "A", "B", "C", "D", "E", "F">>>>}}

\* the invocations without an address, with a flag without its operand, and
\* with the flags that do not bear on the access
OtherRuns ==
    {Run(a, NoEnv, "x86_64", <<[size |-> DirectWindow]>>, Missing) :
        a \in {<<>>, <<T_wide>>, <<T_r>>, <<<<"0", "x", "1", "0">>, T_d>>, <<T_bdf>>, <<T_sym>>,
               <<T_bdf, <<"0", "1", ":", "0", "0", ".", "0">>, <<"0", "x", "1", "0">>>>, <<T_sym, <<"r", "e", "g", "s", ".", "h">>, N_NOPE>>,
               <<T_sym, <<"r", "e", "g", "s", ".", "h">>, N_FOO, <<"7">>, <<"8">>>>}
              \cup {m \o <<<<"0", "x", "1", "0">>>> : m \in ModeArgs}}

Runs == RegionRuns \cup AddressRuns \cup SymbolRuns \cup FieldRuns \cup OtherRuns

Init ==
    /\ \E run \in Runs :
         /\ argv = run.argv
         /\ env = run.env
         /\ arch = run.arch
         /\ resources = run.resources
         /\ fileContent = run.fileContent
    /\ pc = "start"
    /\ pciRegion = Globals0.pciRegion
    /\ wide = Globals0.wide
    /\ isAxiWrite = Globals0.isAxiWrite
    /\ axiAddr = Globals0.axiAddr
    /\ axiData = Globals0.axiData
    /\ device = Globals0.device
    /\ symbolFile = Globals0.symbolFile
    /\ bdf = Globals0.bdf
    /\ symbol = Globals0.symbol
    /\ output_mode = Globals0.output_mode
    /\ PCI = Closed
    /\ fieldSpec = {}
    /\ shift = "none"
    /\ mem = <<>>
    /\ log = <<>>
    /\ error = "none"
    /\ stderr = <<>>
    /\ stdout = <<>>
    /\ exitCode = -1
    /\ call = [op |-> "none"]
    /\ prev = [op |-> "none"]

Next ==
    \/ parseCommandLine
    \/ Main
    \/ ExecuteIllegalRegion
    \/ ExecuteFileNotFound
    \/ ExecuteSymbolNotFound
    \/ ExecuteIllegalAddress
    \/ ExecuteWriteRegister
    \/ ExecuteWriteField
    \/ ExecuteReadRegister
    \/ ExecuteReadField
    \/ ExecuteFault

Spec == Init /\ [][Next]_vars

-----------------------------------------------------------------------------
(* SpecCodec: the four codec operations applied to a register pair *)

\* fspec of a descriptor: width in bits [31:24], position in bits [23:16]
Descriptor(width, pos) == ShiftLeft(FromNat(width), 24) \cup ShiftLeft(FromNat(pos), 16)

\* the descriptors of the field contract: width in [1,32], position in [0, 32-width]
ValidDescriptors ==
    UNION {{Descriptor(w, p) : p \in 0 .. (WordBits - w)} : w \in 1 .. WordBits}

\* descriptors the encoding allows and the field contract does not cover
OddDescriptors ==
    {Descriptor(0, 0), Descriptor(8, 28), Descriptor(33, 0), Descriptor(4, 36),
     Descriptor(32, 0) \cup {0}}

CodecAddrs == {FromHex(<<1, 0>>), FromHex(<<15, 15, 15, 15, 15, 15, 15, 12>>)}

NoCall == [op |-> "none"]

\* the memory with the register pair at a preset to the words v0, v1
Preset(a, v0, v1) == StoreWord(StoreWord(<<>>, a, v0), NextWord(a), v1)

InitCodec ==
    /\ \E a \in CodecAddrs, v0 \in Samples32 :
           mem = Preset(a, v0, Not32(v0))
    /\ log = <<>>
    /\ call = NoCall
    /\ prev = NoCall
    /\ pc = "codec"
    /\ argv = <<>> /\ env = NoEnv /\ arch = "x86_64" /\ resources = <<>>
    /\ fileContent = Missing
    /\ pciRegion = -1 /\ wide = FALSE /\ isAxiWrite = FALSE /\ axiAddr = Bits32
    /\ axiData = {} /\ device = <<>> /\ symbolFile = <<>> /\ bdf = <<>>
    /\ symbol = <<>> /\ output_mode = OM_NONE
    /\ PCI = Closed /\ fieldSpec = {} /\ shift = "none"
    /\ error = "none" /\ stderr = <<>> /\ stdout = <<>> /\ exitCode = -1

\* a behaviour is a pair of calls on one register pair
Record(opname, a, data, fspec, w, mode, e) ==
    /\ prev = NoCall
    /\ prev' = call
    /\ call' = [op |-> opname, addr |-> a, data |-> data, fieldSpec |-> fspec,
                wide |-> w, mode |-> mode, before |-> mem, ret |-> e.ret]
    /\ mem' = e.mem
    /\ log' = e.log
    /\ UNCHANGED <<inputs, globals, pc, PCI, fieldSpec, shift, error, stderr,
                   stdout, exitCode>>

\* the address of the register pair the behaviour works on
Target == CHOOSE a \in CodecAddrs : a \in DOMAIN mem

FieldOps    == {"writeField", "readField"}
RegisterOps == {"writeRegister", "readRegister"}

CallWriteRegister ==
    /\ call.op \notin FieldOps
    /\ \E data \in Samples64, w \in BOOLEAN :
           Record("writeRegister", Target, data, {}, w, "modulo",
                  writeRegister(mem, Target, data, w))

CallReadRegister ==
    /\ call.op \notin FieldOps
    /\ \E w \in BOOLEAN :
           Record("readRegister", Target, {}, {}, w, "modulo",
                  readRegister(mem, Target, w))

\* the descriptor of a field call: any one for the first call, the one of
\* the call before for the second
FieldSpecs ==
    IF call.op \in FieldOps THEN {call.fieldSpec}
    ELSE ValidDescriptors \cup OddDescriptors

\* the build's treatment of over-wide shifts shows only where one happens
ModesFor(fspec) ==
    IF call.op \in FieldOps THEN {call.mode}
    ELSE IF FieldWidth(fspec) < WordBits /\ FieldPos(fspec) < WordBits
         THEN {"modulo"}
         ELSE ShiftModes

CallWriteField ==
    /\ call.op \notin RegisterOps
    /\ \E data \in Samples64, fspec \in FieldSpecs :
        \E mode \in ModesFor(fspec) :
           Record("writeField", Target, data, fspec, FALSE, mode,
                  writeField(mem, Target, data, fspec, mode))

CallReadField ==
    /\ call.op \notin RegisterOps
    /\ \E fspec \in FieldSpecs :
        \E mode \in ModesFor(fspec) :
           Record("readField", Target, {}, fspec, FALSE, mode,
                  readField(mem, Target, fspec, mode))

NextCodec ==
    \/ CallWriteRegister
    \/ CallReadRegister
    \/ CallWriteField
    \/ CallReadField

SpecCodec == InitCodec /\ [][NextCodec]_vars

-----------------------------------------------------------------------------
(* Claims about the register codec, checked under SpecCodec *)

HighHalf(x) == {b - 32 : b \in {c \in x : c >= 32}}
LowHalf(x)  == {b \in x : b < 32}

\* the bit positions [position, position + width) of a descriptor
FieldBits(fspec) ==
    FieldPos(fspec) .. (FieldPos(fspec) + FieldWidth(fspec) - 1)

\* the call is a readField that follows a writeField of the same descriptor
\* on the same register
IsFieldRoundTrip ==
    /\ call.op = "readField"
    /\ prev.op = "writeField"
    /\ call.fieldSpec = prev.fieldSpec
    /\ call.addr = prev.addr
    /\ call.fieldSpec \in ValidDescriptors

\* C1: for every prior register value, every data value and every descriptor
\* with width in [1,32] and position in [0, 32-width], readField after
\* writeField of the same descriptor returns data & ((1 << width) - 1).
C1_FieldRoundTrip ==
    IsFieldRoundTrip =>
        call.ret = {b \in prev.data : b < FieldWidth(call.fieldSpec)}

\* C1 holds of every descriptor narrower than the register.
C1_NarrowFieldRoundTrip ==
    (IsFieldRoundTrip /\ FieldWidth(call.fieldSpec) < WordBits) =>
        call.ret = {b \in prev.data : b < FieldWidth(call.fieldSpec)}

\* C2: writeField with a descriptor of width in [1,32] and position in
\* [0, 32-width] leaves every bit of the register outside
\* [position, position+width) as it was, and stores to no other register.
C2_WriteFieldFrame ==
    (call.op = "writeField" /\ call.fieldSpec \in ValidDescriptors) =>
        /\ \A b \in Bits32 \ FieldBits(call.fieldSpec) :
               (b \in LoadWord(mem, call.addr)) <=> (b \in LoadWord(call.before, call.addr))
        /\ \A o \in ((DOMAIN mem) \cup (DOMAIN call.before)) \ {call.addr} :
               LoadWord(mem, o) = LoadWord(call.before, o)
        /\ \A i \in 1 .. Len(log) : log[i].op = "store" => log[i].off = call.addr

\* a writeField that changed its field of a register with one-bits outside it
C2_Witness ==
    /\ call.op = "writeField"
    /\ call.fieldSpec \in ValidDescriptors
    /\ FieldWidth(call.fieldSpec) < WordBits
    /\ LoadWord(mem, call.addr) # LoadWord(call.before, call.addr)
    /\ LoadWord(call.before, call.addr) \ FieldBits(call.fieldSpec) # {}
    /\ (Bits32 \ LoadWord(call.before, call.addr)) \ FieldBits(call.fieldSpec) # {}

\* C3: with width 32 and position 0 the mask is all-ones: readField returns
\* the whole register and writeField replaces it with the low 32 bits of data.
C3_FullWidthField ==
    (call.op \in FieldOps /\ call.fieldSpec = Descriptor(32, 0)) =>
        /\ call.op = "readField" => call.ret = LoadWord(call.before, call.addr)
        /\ call.op = "writeField" => LoadWord(mem, call.addr) = LowHalf(call.data)

\* C4: a wide readRegister after a wide writeRegister of x at the same
\* address returns x, and after the write the word at the address holds the
\* high 32 bits of x and the word 4 above it the low 32 bits.
C4_WideRoundTrip ==
    /\ (call.op = "writeRegister" /\ call.wide) =>
           /\ LoadWord(mem, call.addr) = HighHalf(call.data)
           /\ LoadWord(mem, NextWord(call.addr)) = LowHalf(call.data)
    /\ (/\ call.op = "readRegister" /\ call.wide
        /\ prev.op = "writeRegister" /\ prev.wide
        /\ prev.addr = call.addr) => call.ret = prev.data

\* a wide read after a wide write of a value whose halves differ
C4_Witness ==
    /\ call.op = "readRegister" /\ call.wide
    /\ prev.op = "writeRegister" /\ prev.wide
    /\ HighHalf(prev.data) # LowHalf(prev.data)
    /\ call.ret = prev.data

\* C5: a wide writeRegister makes exactly two stores, the high 32 bits to the
\* address and then the low 32 bits to the address plus 4; a writeRegister
\* that is not wide makes one store, of the low 32 bits to the address, and
\* leaves the word at the address plus 4 as it was.
C5_WriteOrder ==
    call.op = "writeRegister" =>
        IF call.wide
        THEN log = << Store(call.addr, HighHalf(call.data)),
                      Store(NextWord(call.addr), LowHalf(call.data)) >>
        ELSE /\ log = << Store(call.addr, LowHalf(call.data)) >>
             /\ LoadWord(mem, NextWord(call.addr))
                    = LoadWord(call.before, NextWord(call.addr))

\* a wide write of a value whose halves differ, and a write that is not wide
\* of a value with one-bits in its high half
C5_Witness ==
    /\ call.op = "writeRegister"
    /\ HighHalf(call.data) # LowHalf(call.data)
    /\ prev.op = "writeRegister"
    /\ prev.wide # call.wide

-----------------------------------------------------------------------------
(* Claims about an invocation, checked under Spec *)

\* What the user asked for, read off the command line and the environment.
FlagsWithOperand == {T_r, T_d, T_bdf, T_sym}
Flags == FlagsWithOperand \cup {T_dec, T_hex, T_wide}
IsOperand(i) == i > 1 /\ argv[i - 1] \in FlagsWithOperand
Positionals == {i \in 1 .. Len(argv) : argv[i] \notin Flags /\ ~IsOperand(i)}
HasTarget == Positionals # {}
TargetArg == argv[CHOOSE i \in Positionals : \A j \in Positionals : i <= j]
TargetIsNumeric == HasTarget /\ IsDigit(CharAt(TargetArg, 1))
TargetIsSymbol  == HasTarget /\ ~IsDigit(CharAt(TargetArg, 1))

\* every flag that takes an operand has one
WellFormed == \A i \in 1 .. Len(argv) :
                  (argv[i] \in FlagsWithOperand /\ ~IsOperand(i)) => i < Len(argv)

\* the operand of the last flag f, <<>> when the flag is not given
OperandOf(f) ==
    LET at == {i \in 1 .. (Len(argv) - 1) : argv[i] = f /\ ~IsOperand(i)}
    IN  IF at = {} THEN <<>>
        ELSE <<argv[(CHOOSE i \in at : \A j \in at : j <= i) + 1]>>

RequestedDevice ==
    IF OperandOf(T_d) # <<>> THEN OperandOf(T_d)[1]
    ELSE IF env.pcireg_device # Unset THEN env.pcireg_device
    ELSE DefaultDevice(arch)

\* the region index asked for: the operand of -r, else the environment
\* variable, else 0
RequestedRegion ==
    IF OperandOf(T_r) # <<>> THEN ToInt(StrToULL(OperandOf(T_r)[1]))
    ELSE IF env.pcireg_region # Unset THEN ToInt(StrToULL(env.pcireg_region))
    ELSE 0

RequestedFile ==
    IF OperandOf(T_sym) # <<>> THEN OperandOf(T_sym)[1]
    ELSE IF env.pcireg_symbols # Unset THEN env.pcireg_symbols
    ELSE DefaultSymbolFile

\* the regions the provider lists for the device asked for
ListedRegions ==
    IF RequestedDevice = T_direct THEN <<[size |-> DirectWindow]>> ELSE resources

RegionExists == RequestedRegion \in 0 .. (Len(ListedRegions) - 1)

\* the lines of the symbol file that define the symbol asked for
Matches ==
    {i \in 1 .. Len(fileContent.lines) :
        \E token \in {Candidate(fileContent.lines[i])} :
            token # <<>> /\ token[2] = TargetArg}

FirstMatch == CHOOSE i \in Matches : \A j \in Matches : i <= j

\* the 64-bit value of the symbol asked for
SymbolValue == StrToULL(Candidate(fileContent.lines[FirstMatch])[3])

SymbolResolves == TargetIsSymbol /\ fileContent.exists /\ Matches # {}

\* the relative address the request resolves to
ResolvedAddress ==
    IF TargetIsSymbol THEN LowHalf(SymbolValue)
    ELSE IF RequestedDevice = T_direct
         THEN strToBin32(TargetArg) \cap (0 .. 11)
         ELSE strToBin32(TargetArg)

\* the request names a region that exists and an address
Resolvable ==
    /\ WellFormed /\ HasTarget /\ RegionExists
    /\ TargetIsSymbol => SymbolResolves

Accepted == error \in {"none", "SIGSEGV"}

\* C6: with a region of size s selected and the relative address resolved to
\* a, the invocation fails with IllegalAddress without a load or store when
\* a >= s, and is accepted when a < s.
C6_AddressBound ==
    (pc = "exit" /\ Resolvable) =>
        LET s == ListedRegions[RequestedRegion + 1].size
        IN  IF Less(ResolvedAddress, s)
            THEN Accepted
            ELSE error = "IllegalAddress" /\ log = <<>> /\ mem = <<>>

\* C6 of the invocations whose address is not the number 0xFFFFFFFF
C6_AddressBoundBelowSentinel ==
    (pc = "exit" /\ Resolvable /\ ~(TargetIsNumeric /\ strToBin32(TargetArg) = Bits32)) =>
        LET s == ListedRegions[RequestedRegion + 1].size
        IN  IF Less(ResolvedAddress, s)
            THEN Accepted
            ELSE error = "IllegalAddress" /\ log = <<>> /\ mem = <<>>

\* C7: the invocation fails with IllegalRegion, before any symbol lookup,
\* address check, load or store, when the region index asked for is outside
\* [0, n) for the n regions listed; when it is inside, the access is to the
\* region of that index.
C7_RegionIndex ==
    (pc = "exit" /\ WellFormed /\ HasTarget /\ error # "UsageError") =>
        IF RegionExists
        THEN error # "IllegalRegion" /\ PCI.region = RequestedRegion
        ELSE error = "IllegalRegion" /\ log = <<>> /\ mem = <<>> /\ PCI.region = -1

\* C7 of the invocations that do not ask for region -1
C7_RegionIndexNotMinusOne ==
    (pc = "exit" /\ WellFormed /\ HasTarget /\ error # "UsageError"
        /\ RequestedRegion # -1 /\ Parsed(argv).pciRegion # -1) =>
        IF RegionExists
        THEN error # "IllegalRegion" /\ PCI.region = RequestedRegion
        ELSE error = "IllegalRegion" /\ log = <<>> /\ mem = <<>> /\ PCI.region = -1

\* the width and the position a field specifier packs
PackedWidth(f) == Nat31({b - 24 : b \in f \cap (24 .. 31)})
PackedPos(f)   == Nat31({b - 16 : b \in f \cap (16 .. 23)})

\* the bits [pos, pos + width) of a register value, moved down to bit 0
Field(v, f) ==
    {b - PackedPos(f) : b \in {c \in v : /\ c >= PackedPos(f)
                                         /\ c < PackedPos(f) + PackedWidth(f)}}

\* the request got as far as the address check with a symbol
SymbolDecoded ==
    /\ pc = "exit" /\ WellFormed /\ RegionExists /\ SymbolResolves
    /\ error # "UsageError"

\* C8: the relative address is the low 32 bits of the symbol's value and the
\* field descriptor its high 32 bits, 0x20000000 replaced by 0; the width is
\* bits [31:24] and the position bits [23:16] of the descriptor.
C8_SymbolDecoding ==
    SymbolDecoded =>
        /\ axiAddr = LowHalf(SymbolValue)
        /\ fieldSpec = IF HighHalf(SymbolValue) = {29} THEN {}
                       ELSE HighHalf(SymbolValue)
        /\ (error = "none" /\ fieldSpec # {} /\ ~Overwide(fieldSpec)
              /\ PackedPos(fieldSpec) + PackedWidth(fieldSpec) <= WordBits) =>
             IF isAxiWrite
             THEN /\ Field(LoadWord(mem, axiAddr), fieldSpec)
                        = {b \in axiData : b < PackedWidth(fieldSpec)}
                  /\ LoadWord(mem, axiAddr) \ FieldBits(fieldSpec)
                        = InitWord(axiAddr) \ FieldBits(fieldSpec)
             ELSE stdout[1].value = Field(InitWord(axiAddr), fieldSpec)

\* a field of a symbol was read, and a symbol with the sentinel was resolved
C8_Witness ==
    /\ SymbolDecoded
    /\ error = "none"
    /\ fieldSpec # {}
    /\ PackedWidth(fieldSpec) = 8 /\ PackedPos(fieldSpec) = 4
    /\ ~isAxiWrite
    /\ stdout[1].value # {}

C8_WitnessSentinel ==
    /\ SymbolDecoded
    /\ HighHalf(SymbolValue) = {29}
    /\ error = "none"

\* the example of the resolver was resolved
ExampleResolved(name) ==
    /\ pc = "exit" /\ WellFormed /\ RegionExists /\ error # "UsageError"
    /\ fileContent = ExampleFile
    /\ TargetIsSymbol /\ TargetArg = name

\* C9: with the lines #define FOO 0x20000010 and #define BAR 0x0010000020,
\* FOO resolves to relative address 0x10 without a field and BAR to relative
\* address 0x20 with the field descriptor 0x10.
C9_Example ==
    /\ ExampleResolved(N_FOO) => axiAddr = FromHex(<<1, 0>>) /\ fieldSpec = {}
    /\ ExampleResolved(N_BAR) =>
           axiAddr = FromHex(<<2, 0>>) /\ fieldSpec = FromHex(<<1, 0>>)

\* C9 as the code has it: both values fit 32 bits, so each is the relative
\* address whole, 0x20000010 and 0x10000020, and neither has a field.
C9_ExampleAsParsed ==
    /\ ExampleResolved(N_FOO) =>
           axiAddr = FromHex(<<2, 0, 0, 0, 0, 0, 1, 0>>) /\ fieldSpec = {}
    /\ ExampleResolved(N_BAR) =>
           axiAddr = FromHex(<<1, 0, 0, 0, 0, 0, 2, 0>>) /\ fieldSpec = {}

C9_Witness ==
    /\ ExampleResolved(N_BAR)
    /\ error = "none"
    /\ log # <<>>

\* the symbol file was opened for a symbol
LookedUp ==
    /\ pc = "exit" /\ WellFormed /\ RegionExists /\ TargetIsSymbol
    /\ error # "UsageError"
    /\ fileContent.exists

\* C10: the value is that of the first line that defines the symbol, later
\* lines ignored; the lookup fails with SymbolNotFound, the symbol and the
\* file named in the message, exactly when no line defines it, and then
\* there is no load or store.
C10_SymbolLookup ==
    LookedUp =>
        /\ (Matches = {}) <=> (error = "SymbolNotFound")
        /\ error = "SymbolNotFound" =>
               /\ \E i \in 1 .. Len(stderr) : stderr[i] = TargetArg
               /\ \E i \in 1 .. Len(stderr) : stderr[i] = RequestedFile
               /\ log = <<>> /\ mem = <<>>
        /\ Matches # {} =>
               /\ axiAddr = LowHalf(SymbolValue)
               /\ fieldSpec = IF HighHalf(SymbolValue) = {29} THEN {}
                              ELSE HighHalf(SymbolValue)

\* a symbol that two lines define with different values was resolved
C10_Witness ==
    /\ LookedUp
    /\ \E i \in Matches, j \in Matches :
           /\ i < j
           /\ StrToULL(Candidate(fileContent.lines[i])[3])
                  # StrToULL(Candidate(fileContent.lines[j])[3])
    /\ error = "none"

C10_WitnessNotFound ==
    /\ LookedUp
    /\ fileContent.lines # <<>>
    /\ error = "SymbolNotFound"

\* -wide is on the command line
WideGiven == \E i \in 1 .. Len(argv) : argv[i] = T_wide /\ ~IsOperand(i)

\* the kinds of the accesses made, in order
Accesses == [i \in 1 .. Len(log) |-> log[i].op]

\* the request was accepted and the codec operation ran to its end
Performed == pc = "exit" /\ error = "none"

\* C11: an accepted request is served by writeField when data was given and
\* the field descriptor is not zero, by writeRegister when data was given
\* and the descriptor is zero, by readField when no data was given and the
\* descriptor is not zero, and by readRegister otherwise; a field operation
\* accesses the register at the relative address only, -wide or not.
C11_Dispatch ==
    Performed =>
        IF fieldSpec # {}
        THEN /\ \A i \in 1 .. Len(log) : log[i].off = axiAddr
             /\ IF isAxiWrite
                THEN /\ Accesses = <<"load", "store">>
                     /\ \E mode \in ShiftModes :
                            mem = writeField(<<>>, axiAddr, axiData, fieldSpec, mode).mem
                     /\ stdout = <<>>
                ELSE /\ Accesses = <<"load">>
                     /\ mem = <<>>
                     /\ \E mode \in ShiftModes :
                            stdout[1].value = readField(<<>>, axiAddr, fieldSpec, mode).ret
                     /\ stdout[1].digits = 8
        ELSE IF isAxiWrite
             THEN /\ Accesses = IF WideGiven THEN <<"store", "store">> ELSE <<"store">>
                  /\ mem = writeRegister(<<>>, axiAddr, axiData, WideGiven).mem
                  /\ stdout = <<>>
             ELSE /\ Accesses = IF WideGiven THEN <<"load", "load">> ELSE <<"load">>
                  /\ mem = <<>>
                  /\ stdout[1].value = readRegister(<<>>, axiAddr, WideGiven).ret

\* a field was written with -wide given
C11_Witness ==
    /\ Performed
    /\ WideGiven
    /\ fieldSpec # {}
    /\ isAxiWrite
    /\ Len(log) = 2

\* the four operations were each performed
C11_WitnessReadField == Performed /\ WideGiven /\ fieldSpec # {} /\ ~isAxiWrite
C11_WitnessWideRead  == Performed /\ WideGiven /\ fieldSpec = {} /\ ~isAxiWrite
C11_WitnessWideWrite == Performed /\ WideGiven /\ fieldSpec = {} /\ isAxiWrite

\* the address the user gave: the number, or the low half of the symbol's value
UserAddress ==
    IF TargetIsSymbol THEN LowHalf(SymbolValue) ELSE strToBin32(TargetArg)

\* an invocation in direct mode that opened the device, its address resolved
DirectRequest ==
    /\ pc = "exit" /\ WellFormed /\ HasTarget /\ error # "UsageError"
    /\ RequestedDevice = T_direct
    /\ TargetIsSymbol => SymbolResolves

\* C12: in direct mode, the target a number or a symbol, the provider is
\* asked for a window of 4096 bytes that starts at the address the user gave,
\* and the relative address of the access is that address masked to its low
\* 12 bits, so below 4096.
C12_DirectMode ==
    DirectRequest =>
        /\ PCI.open = [call |-> "openDirect", addr |-> UserAddress,
                       size |-> FromHex(<<1, 0, 0, 0>>)]
        /\ Accepted =>
               /\ axiAddr = UserAddress \cap (0 .. 11)
               /\ Less(axiAddr, FromHex(<<1, 0, 0, 0>>))

\* C12 of the invocations whose target is a number
C12_DirectModeNumeric ==
    (DirectRequest /\ TargetIsNumeric) =>
        /\ PCI.open = [call |-> "openDirect", addr |-> UserAddress,
                       size |-> FromHex(<<1, 0, 0, 0>>)]
        /\ Accepted =>
               /\ axiAddr = UserAddress \cap (0 .. 11)
               /\ Less(axiAddr, FromHex(<<1, 0, 0, 0>>))

\* the size of the region the access goes to
SelectedSize == ListedRegions[PCI.region + 1].size

\* C13: every word an accepted request loads or stores lies within the
\* region selected: a word at offset o of a region of size s has o + 4 <= s.
C13_AccessInside ==
    (pc = "exit" /\ Accepted) =>
        \A i \in 1 .. Len(log) : ~Less(SelectedSize, Plus(log[i].off, {2}))

\* the relative address of an accepted request lies within the region
C13_AddressInside ==
    (pc = "exit" /\ Accepted) =>
        /\ Less(axiAddr, SelectedSize)
        /\ log # <<>>
        /\ log[1].off = axiAddr

====
